---- MODULE Spec2Model ----
(***************************************************************************)
(* Model of the Networks routes of Hello World! Tube (server_networks.js)  *)
(* over the relational schema of the Networks migration.                   *)
(*                                                                         *)
(* Every request handler is an async function: it runs up to its next      *)
(* `await prisma...` and other handlers may run in between.  One action of *)
(* the model is one store call of one handler together with the local code *)
(* that follows it up to the next store call (or up to the response).      *)
(* The store executes each call atomically and enforces the unique         *)
(* indexes and the foreign keys of the migration.                          *)
(*                                                                         *)
(* inflight is a set: two suspended handlers with the same request and the *)
(* same local data are one element, and take their next step one after the *)
(* other from the states where only one of them is suspended.              *)
(***************************************************************************)
EXTENDS Integers, FiniteSets, Sequences, TLC

\* ---- bounds ------------------------------------------------------------
MaxId == 3          \* uuids of Network, NetworkInvitation and NetworkApplication rows
                    \* the store hands out in one behaviour
MaxInFlight == 2    \* requests being handled at the same time

\* rows of table User (signup is served elsewhere; no route here adds one)
Users == {"A", "B"}

VARIABLES
    networks,       \* table Network:            rows [id, ownerId, name]
    memberships,    \* table NetworkMembership:  rows [id, networkId, userId, role, status]
    invitations,    \* table NetworkInvitation:  rows [id, networkId, invitedUserId, inviterId, status]
    applications,   \* table NetworkApplication: rows [id, networkId, applicantId, status]
    nextId,         \* the next fresh uuid
    inflight,       \* handlers suspended at an await
    response,       \* response the step just taken sends, NoResponse if none
    users,          \* table User: user id -> [phone, contactEmail, isPublicProfile]
    profileResponse \* last response of the /api/users routes

vars == <<networks, memberships, invitations, applications, nextId, inflight, response,
          users, profileResponse>>
profile == <<users, profileResponse>>
db == <<networks, memberships, invitations, applications>>

\* ---- the store ---------------------------------------------------------
\* Prisma error codes: P2002 unique constraint failed, P2003 foreign key
\* constraint failed, P2025 record to update/delete not found.

NetworkExists(n) == \E w \in networks : w.id = n

\* network.ownerId of the row prisma.network.findUnique returns
OwnerId(n) == (CHOOSE w \in networks : w.id = n).ownerId

\* CREATE UNIQUE INDEX "NetworkMembership_networkId_userId_key"
NetworkMembership_networkId_userId_key(n, u) ==
    \E m \in memberships : m.networkId = n /\ m.userId = u

\* CREATE UNIQUE INDEX "NetworkInvitation_networkId_invitedUserId_key"
NetworkInvitation_networkId_invitedUserId_key(n, u) ==
    \E i \in invitations : i.networkId = n /\ i.invitedUserId = u

\* CREATE UNIQUE INDEX "NetworkApplication_networkId_applicantId_key"
NetworkApplication_networkId_applicantId_key(n, u) ==
    \E a \in applications : a.networkId = n /\ a.applicantId = u

\* "NetworkMembership_networkId_fkey" ... REFERENCES "Network"("id")
NetworkMembership_networkId_fkey(n) == NetworkExists(n)

\* mutant: the column without its foreign key
NetworkInvitation_networkId_fkey_missing(n) == TRUE

\* "NetworkInvitation_networkId_fkey" ... REFERENCES "Network"("id")
NetworkInvitation_networkId_fkey(n) == NetworkExists(n)

\* "NetworkApplication_networkId_fkey" ... REFERENCES "Network"("id")
NetworkApplication_networkId_fkey(n) == NetworkExists(n)

\* mutant: the table without its unique index
MembershipCreateError_noUniqueIndex(n, u) ==
    IF ~NetworkMembership_networkId_fkey(n) THEN "P2003" ELSE ""

\* error of prisma.networkMembership.create, "" when the insert succeeds
MembershipCreateError(n, u) ==
    IF NetworkMembership_networkId_userId_key(n, u) THEN "P2002"
    ELSE IF ~NetworkMembership_networkId_fkey(n) THEN "P2003"
    ELSE ""

\* mutant: the table without its unique index
InvitationCreateError_noUniqueIndex(n, u) ==
    IF ~NetworkInvitation_networkId_fkey(n) THEN "P2003" ELSE ""

\* error of prisma.networkInvitation.create
InvitationCreateError(n, u) ==
    IF NetworkInvitation_networkId_invitedUserId_key(n, u) THEN "P2002"
    ELSE IF ~NetworkInvitation_networkId_fkey(n) THEN "P2003"
    ELSE ""

\* error of prisma.networkApplication.create
ApplicationCreateError(n, u) ==
    IF NetworkApplication_networkId_applicantId_key(n, u) THEN "P2002"
    ELSE IF ~NetworkApplication_networkId_fkey(n) THEN "P2003"
    ELSE ""

\* No route reads the uuid of a NetworkMembership row: the model names the
\* row by the number of rows its (networkId, userId) pair already has, so
\* that two rows of one pair remain two rows of the table.
MembershipRow(n, u, role) ==
    [id |-> Cardinality({m \in memberships : m.networkId = n /\ m.userId = u}),
     networkId |-> n, userId |-> u, role |-> role, status |-> "active"]

\* column defaults: "status" TEXT NOT NULL DEFAULT 'pending'
InvitationRow(id, n, u, inviter) ==
    [id |-> id, networkId |-> n, invitedUserId |-> u, inviterId |-> inviter,
     status |-> "pending"]

ApplicationRow(id, n, u) ==
    [id |-> id, networkId |-> n, applicantId |-> u, status |-> "pending"]

\* prisma.networkInvitation.update({ where: { id }, data: { status } })
InvitationUpdate(id, st) ==
    {IF i.id = id THEN [i EXCEPT !.status = st] ELSE i : i \in invitations}

\* prisma.networkApplication.update({ where: { id }, data: { status } })
ApplicationUpdate(id, st) ==
    {IF a.id = id THEN [a EXCEPT !.status = st] ELSE a : a \in applications}

\* ---- requests ----------------------------------------------------------
\* A request body and the parsed data are sets of <<key, value>> pairs.
NewNetworkName == "a"

Bodies == {{<<"name", "b">>, <<"ownerId", "B">>}, {<<"name", "">>}}

HasField(data, k) == \E p \in data : p[1] = k

Field(data, k, default) ==
    IF HasField(data, k) THEN (CHOOSE p \in data : p[1] = k)[2] ELSE default

NewNetworkBody == {<<"name", NewNetworkName>>, <<"themes", <<"t">>>>}

\* strings of 100 and of 101 characters
Name100 == "aaaaaaaaaaaaaaaaaaaaaaaaaaaaaaaaaaaaaaaaaaaaaaaaaaaaaaaaaaaaaaaaaaaaaaaaaaaaaaaaaaaaaaaaaaaaaaaaaaaa"
Name101 == "aaaaaaaaaaaaaaaaaaaaaaaaaaaaaaaaaaaaaaaaaaaaaaaaaaaaaaaaaaaaaaaaaaaaaaaaaaaaaaaaaaaaaaaaaaaaaaaaaaaaa"

Themes(n) == [k \in 1..n |-> "t"]

\* request bodies of POST /api/networks: a name and a themes array
CreateBodies ==
    {{<<"name", nm>>, <<"themes", th>>} :
        nm \in {"", NewNetworkName, Name100, Name101},
        th \in {<<>>, <<"t">>, <<"">>, <<"t", "">>, Themes(10), Themes(11)}}

\* name: z.string().min(1).max(100), themes: z.array(z.string()).min(1).max(10)
\* (description and logoUrl are optional and left out)
networkSchema_valid(body) ==
    /\ HasField(body, "name")
    /\ Len(Field(body, "name", "")) >= 1 /\ Len(Field(body, "name", "")) <= 100
    /\ HasField(body, "themes")
    /\ Len(Field(body, "themes", <<>>)) >= 1 /\ Len(Field(body, "themes", <<>>)) <= 10

\* name: z.string().min(1).max(100), optional under .partial()
networkSchema_partial_valid(body) ==
    HasField(body, "name") =>
        (Len(Field(body, "name", "")) >= 1 /\ Len(Field(body, "name", "")) <= 100)

\* a z.object strips the keys that are not in the schema
networkSchema_partial_parse(body) == {p \in body : p[1] \in {"name"}}

Request(op, caller, pc, n, u, row, action) ==
    [op |-> op, caller |-> caller, pc |-> pc, networkId |-> n, userId |-> u,
     rowId |-> row, action |-> action, data |-> {}]

Response(r, status, error) ==
    [op |-> r.op, caller |-> r.caller, networkId |-> r.networkId,
     userId |-> r.userId, rowId |-> r.rowId, action |-> r.action,
     status |-> status, error |-> error, body |-> <<>>]

NoResponse ==
    [op |-> "", caller |-> "", networkId |-> 0, userId |-> "", rowId |-> 0,
     action |-> "", status |-> "", error |-> "", body |-> <<>>]

\* ids a request can name: the rows of the table, and 0 for any id that
\* names no row (all such ids are treated alike)
NetworkIds == {w.id : w \in networks} \cup {0}
InvitationIds == {i.id : i \in invitations} \cup {0}
ApplicationIds == {a.id : a \in applications} \cup {0}

\* Node runs one continuation at a time: the response a step sends is
\* written out (ResponseSent) before the next continuation runs
Idle == response = NoResponse

\* ---- the /api/users routes: values and responses -----------------------
\* a NULL column, null in JSON
Null == "null"

Phones == {"1", "2"}
Emails == {"a@x.io", "b@x.io"}
NotEmails == {"ab"}

\* GET /api/users/:id/profile has no authMiddleware: anyone, signed in or not
Viewers == Users \cup {"anonymous"}
Targets == Users \cup {"nobody"}

\* request bodies of PATCH /api/users/profile: each key present or absent
ProfileBodies ==
    {ph \cup em \cup pub :
        ph \in {{}} \cup {{<<"phone", x>>} : x \in Phones},
        em \in {{}} \cup {{<<"contactEmail", x>>} : x \in Emails \cup NotEmails},
        pub \in {{}} \cup {{<<"isPublicProfile", x>>} : x \in BOOLEAN}}

\* contactEmail: z.string().email().optional()
profileSchema_valid(body) ==
    HasField(body, "contactEmail") => Field(body, "contactEmail", "") \in Emails

profileSchema_parse(body) ==
    {p \in body : p[1] \in {"phone", "contactEmail", "isPublicProfile"}}

ProfileResponse(op, caller, target, status, body) ==
    [op |-> op, caller |-> caller, target |-> target, status |-> status, body |-> body]

NoProfileResponse == ProfileResponse("", "", "", "", {})

\* the selected columns of a User row as the JSON object of the response
\* (displayName, bio, socialLinks and createdAt are left out: no route here
\* treats them differently from id)
UserJson(id, row) ==
    {<<"id", id>>, <<"phone", row.phone>>, <<"contactEmail", row.contactEmail>>,
     <<"isPublicProfile", row.isPublicProfile>>}

CanStart == Idle /\ Cardinality(inflight) < MaxInFlight

\* the handler suspends at its next await
Suspend(r, old) ==
    /\ inflight' = (inflight \ old) \cup {r}
    /\ response' = NoResponse
    /\ UNCHANGED profile

\* the handler sends its response (status "unhandled": the store's error
\* leaves the handler as a rejected promise, the handler sends nothing)
Finish(r, old, status, error) ==
    /\ inflight' = inflight \ old
    /\ response' = Response(r, status, error)
    /\ UNCHANGED profile

Init ==
    /\ networks = {}
    /\ memberships = {}
    /\ invitations = {}
    /\ applications = {}
    /\ nextId = 1
    /\ inflight = {}
    /\ response = NoResponse
    /\ users = [u \in Users |->
                  [phone |-> Null, contactEmail |-> Null, isPublicProfile |-> FALSE]]
    /\ profileResponse = NoProfileResponse

\* ---- POST /api/networks ------------------------------------------------
\* networkSchema.parse(req.body), whose error is caught as a 400, then
\* prisma.network.create({ data: { ...data, ownerId: req.user.id } })
CreateNetwork_body(caller, body) ==
    /\ CanStart
    /\ IF ~networkSchema_valid(body)
       THEN /\ Finish(Request("createNetwork", caller, "", 0, caller, 0, ""), {},
                      "400", "ZodError")
            /\ UNCHANGED <<db, nextId>>
       ELSE /\ nextId <= MaxId
            /\ networks' = networks \cup
                  {[id |-> nextId, ownerId |-> caller, name |-> Field(body, "name", "")]}
            /\ nextId' = nextId + 1
            /\ Suspend(Request("createNetwork", caller, "membership", nextId, caller, 0, ""), {})
            /\ UNCHANGED <<memberships, invitations, applications>>

\* the same with a body that passes networkSchema
CreateNetwork_network(caller) == CreateNetwork_body(caller, NewNetworkBody)

\* prisma.networkMembership.create({ ..., role: 'owner', status: 'active' })
CreateNetwork_membership(r) ==
    /\ Idle
    /\ r.op = "createNetwork" /\ r.pc = "membership"
    /\ LET err == MembershipCreateError(r.networkId, r.caller) IN
       IF err # ""
       THEN /\ Finish(r, {r}, "400", err)
            /\ UNCHANGED <<db, nextId>>
       ELSE /\ memberships' = memberships \cup
                   {MembershipRow(r.networkId, r.caller, "owner")}
            /\ Finish(r, {r}, "200", "")
            /\ UNCHANGED <<networks, invitations, applications, nextId>>

\* ---- PATCH /api/networks/:id ------------------------------------------
\* mutant: without the 'Not authorized' check
UpdateNetwork_find_noOwnerCheck(caller, n, body) ==
    /\ CanStart
    /\ LET r == Request("updateNetwork", caller, "update", n, "", 0, "") IN
       IF ~NetworkExists(n) THEN Finish(r, {}, "404", "Network not found")
       ELSE IF ~networkSchema_partial_valid(body)
            THEN Finish(r, {}, "400", "ZodError")
       ELSE Suspend([r EXCEPT !.data = networkSchema_partial_parse(body)], {})
    /\ UNCHANGED <<db, nextId>>

\* prisma.network.findUnique, the 404 and 403 checks, then
\* networkSchema.partial().parse(req.body), whose error is caught as a 400
UpdateNetwork_find(caller, n, body) ==
    /\ CanStart
    /\ LET r == Request("updateNetwork", caller, "update", n, "", 0, "") IN
       IF ~NetworkExists(n) THEN Finish(r, {}, "404", "Network not found")
       ELSE IF OwnerId(n) # caller
            THEN Finish(r, {}, "403", "Not authorized")
       ELSE IF ~networkSchema_partial_valid(body)
            THEN Finish(r, {}, "400", "ZodError")
       ELSE Suspend([r EXCEPT !.data = networkSchema_partial_parse(body)], {})
    /\ UNCHANGED <<db, nextId>>

\* prisma.network.update({ where: { id }, data }); a missing row is P2025,
\* caught as a 400
UpdateNetwork_update(r) ==
    /\ Idle
    /\ r.op = "updateNetwork" /\ r.pc = "update"
    /\ IF ~NetworkExists(r.networkId)
       THEN /\ Finish(r, {r}, "400", "P2025")
            /\ UNCHANGED <<db, nextId>>
       ELSE /\ networks' = {IF w.id = r.networkId
                            THEN [w EXCEPT !.name = Field(r.data, "name", w.name)]
                            ELSE w : w \in networks}
            /\ Finish(r, {r}, "200", "")
            /\ UNCHANGED <<memberships, invitations, applications, nextId>>

\* ---- DELETE /api/networks/:id -----------------------------------------
\* prisma.network.findUnique, then the 404 and 403 checks
DeleteNetwork_find(caller, n) ==
    /\ CanStart
    /\ LET r == Request("deleteNetwork", caller, "delete", n, "", 0, "") IN
       IF ~NetworkExists(n) THEN Finish(r, {}, "404", "Network not found")
       ELSE IF OwnerId(n) # caller
            THEN Finish(r, {}, "403", "Not authorized")
       ELSE Suspend(r, {})
    /\ UNCHANGED <<db, nextId>>

\* prisma.network.delete; the foreign keys are ON DELETE CASCADE
DeleteNetwork_delete(r) ==
    /\ Idle
    /\ r.op = "deleteNetwork" /\ r.pc = "delete"
    /\ IF ~NetworkExists(r.networkId)
       THEN /\ Finish(r, {r}, "unhandled", "P2025")
            /\ UNCHANGED <<db, nextId>>
       ELSE /\ networks' = {w \in networks : w.id # r.networkId}
            /\ memberships' = {m \in memberships : m.networkId # r.networkId}
            /\ invitations' = {i \in invitations : i.networkId # r.networkId}
            /\ applications' = {a \in applications : a.networkId # r.networkId}
            /\ Finish(r, {r}, "200", "")
            /\ UNCHANGED nextId

\* ---- POST /api/networks/:id/invite -------------------------------------
\* mutant: without the 'Only owner can invite' check
Invite_find_noOwnerCheck(caller, n, u) ==
    /\ CanStart
    /\ LET r == Request("inviteUser", caller, "create", n, u, 0, "") IN
       IF ~NetworkExists(n) THEN Finish(r, {}, "404", "Network not found")
       ELSE IF NetworkMembership_networkId_userId_key(n, u)
            THEN Finish(r, {}, "400", "User already member")
       ELSE Suspend(r, {})
    /\ UNCHANGED <<db, nextId>>

\* prisma.network.findUnique with the 404 and 403 checks, then
\* prisma.networkMembership.findUnique: "Check if already member".
\* The two reads are taken together: between them the Network row can only
\* disappear, and the insert that follows then fails on its foreign key.
Invite_find(caller, n, u) ==
    /\ CanStart
    /\ LET r == Request("inviteUser", caller, "create", n, u, 0, "") IN
       IF ~NetworkExists(n) THEN Finish(r, {}, "404", "Network not found")
       ELSE IF OwnerId(n) # caller
            THEN Finish(r, {}, "403", "Only owner can invite")
       ELSE IF NetworkMembership_networkId_userId_key(n, u)
            THEN Finish(r, {}, "400", "User already member")
       ELSE Suspend(r, {})
    /\ UNCHANGED <<db, nextId>>

\* mutant: an upsert, the row of the pair is reset to pending
Invite_create_upsert(r) ==
    /\ Idle
    /\ r.op = "inviteUser" /\ r.pc = "create"
    /\ IF NetworkInvitation_networkId_invitedUserId_key(r.networkId, r.userId)
       THEN /\ invitations' =
                   {IF i.networkId = r.networkId /\ i.invitedUserId = r.userId
                    THEN [i EXCEPT !.status = "pending"] ELSE i : i \in invitations}
            /\ Finish(r, {r}, "200", "")
            /\ UNCHANGED <<networks, memberships, applications, nextId>>
       ELSE IF ~NetworkInvitation_networkId_fkey(r.networkId)
       THEN /\ Finish(r, {r}, "400", "P2003")
            /\ UNCHANGED <<db, nextId>>
       ELSE /\ nextId <= MaxId
            /\ invitations' = invitations \cup
                   {InvitationRow(nextId, r.networkId, r.userId, r.caller)}
            /\ nextId' = nextId + 1
            /\ Finish([r EXCEPT !.rowId = nextId], {r}, "200", "")
            /\ UNCHANGED <<networks, memberships, applications>>

\* prisma.networkInvitation.create; an error is caught and answered 400
Invite_create(r) ==
    /\ Idle
    /\ r.op = "inviteUser" /\ r.pc = "create"
    /\ LET err == InvitationCreateError(r.networkId, r.userId) IN
       IF err # ""
       THEN /\ Finish(r, {r}, "400", err)
            /\ UNCHANGED <<db, nextId>>
       ELSE /\ nextId <= MaxId
            /\ invitations' = invitations \cup
                   {InvitationRow(nextId, r.networkId, r.userId, r.caller)}
            /\ nextId' = nextId + 1
            /\ Finish([r EXCEPT !.rowId = nextId], {r}, "200", "")
            /\ UNCHANGED <<networks, memberships, applications>>

\* ---- PATCH /api/invitations/:id ----------------------------------------
Actions == {"accept", "reject", "approve"}

\* req.body.action: the handlers check it before they read anything else, so
\* the actions they refuse are tried on the requests that name no row only
ActionsFor(id, valid) == IF id = 0 THEN Actions ELSE valid

\* mutant: without the invitedUserId check
RespondToInvitation_find_noInviteeCheck(caller, id, action) ==
    /\ CanStart
    /\ LET r == Request("respondToInvitation", caller, "", 0, caller, id, action) IN
       IF action \notin {"accept", "reject"}
       THEN Finish(r, {}, "400", "Invalid action")
       ELSE IF ~\E i \in invitations : i.id = id
            THEN Finish(r, {}, "404", "Invitation not found")
       ELSE LET invitation == CHOOSE i \in invitations : i.id = id IN
            Suspend([r EXCEPT !.networkId = invitation.networkId,
                              !.pc = IF action = "accept" THEN "membership"
                                     ELSE "update"], {})
    /\ UNCHANGED <<db, nextId>>

\* the action check, prisma.networkInvitation.findUnique, the 404 and 403
\* checks; the handler keeps the row it read (invitation.networkId)
RespondToInvitation_find(caller, id, action) ==
    /\ CanStart
    /\ LET r == Request("respondToInvitation", caller, "", 0, caller, id, action) IN
       IF action \notin {"accept", "reject"}
       THEN Finish(r, {}, "400", "Invalid action")
       ELSE IF ~\E i \in invitations : i.id = id
            THEN Finish(r, {}, "404", "Invitation not found")
       ELSE LET invitation == CHOOSE i \in invitations : i.id = id IN
            IF invitation.invitedUserId # caller
            THEN Finish([r EXCEPT !.networkId = invitation.networkId], {},
                        "403", "Not authorized")
            ELSE Suspend([r EXCEPT !.networkId = invitation.networkId,
                                   !.pc = IF action = "accept" THEN "membership"
                                          ELSE "update"], {})
    /\ UNCHANGED <<db, nextId>>

\* mutant: the status is written before the membership is inserted
RespondToInvitation_membership_statusFirst(r) ==
    /\ Idle
    /\ r.op = "respondToInvitation" /\ r.pc = "membership"
    /\ invitations' = InvitationUpdate(r.rowId, "accepted")
    /\ LET err == MembershipCreateError(r.networkId, r.caller) IN
       IF err # ""
       THEN /\ Finish(r, {r}, "unhandled", err)
            /\ UNCHANGED <<networks, memberships, applications, nextId>>
       ELSE /\ memberships' = memberships \cup
                   {MembershipRow(r.networkId, r.caller, "member")}
            /\ Finish(r, {r}, "200", "")
            /\ UNCHANGED <<networks, applications, nextId>>

\* prisma.networkMembership.create({ ..., role: 'member' }); no try/catch
RespondToInvitation_membership(r) ==
    /\ Idle
    /\ r.op = "respondToInvitation" /\ r.pc = "membership"
    /\ LET err == MembershipCreateError(r.networkId, r.caller) IN
       IF err # ""
       THEN /\ Finish(r, {r}, "unhandled", err)
            /\ UNCHANGED <<db, nextId>>
       ELSE /\ memberships' = memberships \cup
                   {MembershipRow(r.networkId, r.caller, "member")}
            /\ Suspend([r EXCEPT !.pc = "update"], {r})
            /\ UNCHANGED <<networks, invitations, applications, nextId>>

\* prisma.networkInvitation.update: status 'accepted' or 'rejected'
RespondToInvitation_update(r) ==
    /\ Idle
    /\ r.op = "respondToInvitation" /\ r.pc = "update"
    /\ IF ~\E i \in invitations : i.id = r.rowId
       THEN /\ Finish(r, {r}, "unhandled", "P2025")
            /\ UNCHANGED <<db, nextId>>
       ELSE /\ invitations' = InvitationUpdate(r.rowId,
                   IF r.action = "accept" THEN "accepted" ELSE "rejected")
            /\ Finish(r, {r}, "200", "")
            /\ UNCHANGED <<networks, memberships, applications, nextId>>

\* ---- POST /api/networks/:id/apply --------------------------------------
\* mutant: without the 'Already member' check
Apply_existing_noMemberCheck(caller, n) ==
    /\ CanStart
    /\ Suspend(Request("applyToNetwork", caller, "create", n, caller, 0, ""), {})
    /\ UNCHANGED <<db, nextId>>

\* prisma.networkMembership.findUnique: "Check if already member"
Apply_existing(caller, n) ==
    /\ CanStart
    /\ LET r == Request("applyToNetwork", caller, "create", n, caller, 0, "") IN
       IF NetworkMembership_networkId_userId_key(n, caller)
       THEN Finish(r, {}, "400", "Already member")
       ELSE Suspend(r, {})
    /\ UNCHANGED <<db, nextId>>

\* prisma.networkApplication.create; an error is caught and answered 400
Apply_create(r) ==
    /\ Idle
    /\ r.op = "applyToNetwork" /\ r.pc = "create"
    /\ LET err == ApplicationCreateError(r.networkId, r.caller) IN
       IF err # ""
       THEN /\ Finish(r, {r}, "400", err)
            /\ UNCHANGED <<db, nextId>>
       ELSE /\ nextId <= MaxId
            /\ applications' = applications \cup
                   {ApplicationRow(nextId, r.networkId, r.caller)}
            /\ nextId' = nextId + 1
            /\ Finish([r EXCEPT !.rowId = nextId], {r}, "200", "")
            /\ UNCHANGED <<networks, memberships, invitations>>

\* ---- PATCH /api/networks/:networkId/applications/:appId -----------------
\* the action check, prisma.network.findUnique with the 404 and 403 checks,
\* then prisma.networkApplication.findUnique({ where: { id: req.params.appId } })
\* (the two reads are taken together, as in Invite_find); the handler keeps
\* the row it read (application.applicantId)
RespondToApplication_find(caller, n, id, action) ==
    /\ CanStart
    /\ LET r == Request("respondToApplication", caller, "", n, "", id, action) IN
       IF action \notin {"approve", "reject"}
       THEN Finish(r, {}, "400", "Invalid action")
       ELSE IF ~NetworkExists(n) THEN Finish(r, {}, "404", "Network not found")
       ELSE IF OwnerId(n) # caller
            THEN Finish(r, {}, "403", "Not authorized")
       ELSE IF ~\E a \in applications : a.id = id
            THEN Finish(r, {}, "404", "Application not found")
       ELSE LET application == CHOOSE a \in applications : a.id = id IN
            Suspend([r EXCEPT !.userId = application.applicantId,
                              !.pc = IF action = "approve" THEN "membership"
                                     ELSE "update"], {})
    /\ UNCHANGED <<db, nextId>>

\* mutant: the insert is an upsert, a second row is never refused
RespondToApplication_membership_upsert(r) ==
    /\ Idle
    /\ r.op = "respondToApplication" /\ r.pc = "membership"
    /\ IF ~NetworkExists(r.networkId)
       THEN /\ Finish(r, {r}, "unhandled", "P2003")
            /\ UNCHANGED <<db, nextId>>
       ELSE /\ memberships' = memberships \cup
                   {[id |-> 0, networkId |-> r.networkId, userId |-> r.userId,
                     role |-> "member", status |-> "active"]}
            /\ Suspend([r EXCEPT !.pc = "update"], {r})
            /\ UNCHANGED <<networks, invitations, applications, nextId>>

\* mutant: the membership is inserted with role 'owner'
RespondToApplication_membership_asOwner(r) ==
    /\ Idle
    /\ r.op = "respondToApplication" /\ r.pc = "membership"
    /\ LET err == MembershipCreateError(r.networkId, r.userId) IN
       IF err # ""
       THEN /\ Finish(r, {r}, "unhandled", err)
            /\ UNCHANGED <<db, nextId>>
       ELSE /\ memberships' = memberships \cup
                   {MembershipRow(r.networkId, r.userId, "owner")}
            /\ Suspend([r EXCEPT !.pc = "update"], {r})
            /\ UNCHANGED <<networks, invitations, applications, nextId>>

\* prisma.networkMembership.create({ networkId: req.params.networkId,
\* userId: application.applicantId, role: 'member' }); no try/catch
RespondToApplication_membership(r) ==
    /\ Idle
    /\ r.op = "respondToApplication" /\ r.pc = "membership"
    /\ LET err == MembershipCreateError(r.networkId, r.userId) IN
       IF err # ""
       THEN /\ Finish(r, {r}, "unhandled", err)
            /\ UNCHANGED <<db, nextId>>
       ELSE /\ memberships' = memberships \cup
                   {MembershipRow(r.networkId, r.userId, "member")}
            /\ Suspend([r EXCEPT !.pc = "update"], {r})
            /\ UNCHANGED <<networks, invitations, applications, nextId>>

\* prisma.networkApplication.update: status 'approved' or 'rejected'
RespondToApplication_update(r) ==
    /\ Idle
    /\ r.op = "respondToApplication" /\ r.pc = "update"
    /\ IF ~\E a \in applications : a.id = r.rowId
       THEN /\ Finish(r, {r}, "unhandled", "P2025")
            /\ UNCHANGED <<db, nextId>>
       ELSE /\ applications' = ApplicationUpdate(r.rowId,
                   IF r.action = "approve" THEN "approved" ELSE "rejected")
            /\ Finish(r, {r}, "200", "")
            /\ UNCHANGED <<networks, memberships, invitations, nextId>>

\* ---- DELETE /api/networks/:id/members/:userId --------------------------
\* mutant: without the 'Cannot remove yourself' check
RemoveMember_find_noSelfCheck(caller, n, u) ==
    /\ CanStart
    /\ LET r == Request("removeMember", caller, "delete", n, u, 0, "") IN
       IF ~NetworkExists(n) THEN Finish(r, {}, "404", "Network not found")
       ELSE IF OwnerId(n) # caller
            THEN Finish(r, {}, "403", "Not authorized")
       ELSE Suspend(r, {})
    /\ UNCHANGED <<db, nextId>>

\* prisma.network.findUnique, then the 404, 403 and 400 checks
RemoveMember_find(caller, n, u) ==
    /\ CanStart
    /\ LET r == Request("removeMember", caller, "delete", n, u, 0, "") IN
       IF ~NetworkExists(n) THEN Finish(r, {}, "404", "Network not found")
       ELSE IF OwnerId(n) # caller
            THEN Finish(r, {}, "403", "Not authorized")
       ELSE IF u = caller THEN Finish(r, {}, "400", "Cannot remove yourself")
       ELSE Suspend(r, {})
    /\ UNCHANGED <<db, nextId>>

\* mutant: deleteMany of every member row of the network but the owner's
RemoveMember_delete_allMembers(r) ==
    /\ Idle
    /\ r.op = "removeMember" /\ r.pc = "delete"
    /\ IF ~NetworkMembership_networkId_userId_key(r.networkId, r.userId)
       THEN /\ Finish(r, {r}, "unhandled", "P2025")
            /\ UNCHANGED <<db, nextId>>
       ELSE /\ memberships' = {m \in memberships :
                   ~(m.networkId = r.networkId /\ m.role = "member")}
            /\ Finish(r, {r}, "200", "")
            /\ UNCHANGED <<networks, invitations, applications, nextId>>

\* prisma.networkMembership.delete({ where: { networkId_userId } })
RemoveMember_delete(r) ==
    /\ Idle
    /\ r.op = "removeMember" /\ r.pc = "delete"
    /\ IF ~NetworkMembership_networkId_userId_key(r.networkId, r.userId)
       THEN /\ Finish(r, {r}, "unhandled", "P2025")
            /\ UNCHANGED <<db, nextId>>
       ELSE /\ memberships' = {m \in memberships :
                   ~(m.networkId = r.networkId /\ m.userId = r.userId)}
            /\ Finish(r, {r}, "200", "")
            /\ UNCHANGED <<networks, invitations, applications, nextId>>

\* res.json(...) / res.status(...).json(...): the response leaves the server
ResponseSent ==
    /\ ~Idle
    /\ response' = NoResponse
    /\ UNCHANGED <<db, nextId, inflight, profile>>

Next ==
    \/ ResponseSent
    \/ \E c \in Users, n \in NetworkIds : DeleteNetwork_find(c, n)
    \/ \E r \in inflight : DeleteNetwork_delete(r)
    \/ \E c \in Users, n \in NetworkIds, u \in Users : Invite_find(c, n, u)
    \/ \E r \in inflight : Invite_create(r)
    \/ \E c \in Users, id \in InvitationIds :
          \E a \in ActionsFor(id, {"accept", "reject"}) :
             RespondToInvitation_find(c, id, a)
    \/ \E r \in inflight : RespondToInvitation_membership(r)
    \/ \E r \in inflight : RespondToInvitation_update(r)
    \/ \E c \in Users, n \in NetworkIds : Apply_existing(c, n)
    \/ \E r \in inflight : Apply_create(r)
    \/ \E c \in Users, n \in NetworkIds, id \in ApplicationIds :
          \E a \in ActionsFor(id, {"approve", "reject"}) :
             RespondToApplication_find(c, n, id, a)
    \/ \E r \in inflight : RespondToApplication_membership(r)
    \/ \E r \in inflight : RespondToApplication_update(r)
    \/ \E c \in Users, n \in NetworkIds, u \in Users : RemoveMember_find(c, n, u)
    \/ \E r \in inflight : RemoveMember_delete(r)
    \/ \E c \in Users : CreateNetwork_network(c)
    \/ \E r \in inflight : CreateNetwork_membership(r)

Spec == Init /\ [][Next]_vars

\* ---- the handlers of Spec together with PATCH /api/networks/:id ---------
\* updateNetwork writes Network.name only, which no other handler reads; Spec
\* leaves it out and SpecWithUpdate runs every handler over fewer rows.
MaxIdWithUpdate == 2

UpdateNetwork ==
    \/ \E c \in Users, n \in NetworkIds, body \in Bodies :
          UpdateNetwork_find(c, n, body)
    \/ \E r \in inflight : UpdateNetwork_update(r)

NextWithUpdate ==
    \/ ResponseSent
    \/ \E c \in Users, n \in NetworkIds : DeleteNetwork_find(c, n)
    \/ \E r \in inflight : DeleteNetwork_delete(r)
    \/ \E c \in Users, n \in NetworkIds, u \in Users : Invite_find(c, n, u)
    \/ \E r \in inflight : Invite_create(r) /\ nextId' <= MaxIdWithUpdate + 1
    \/ \E c \in Users, id \in InvitationIds :
          \E a \in ActionsFor(id, {"accept", "reject"}) :
             RespondToInvitation_find(c, id, a)
    \/ \E r \in inflight : RespondToInvitation_membership(r)
    \/ \E r \in inflight : RespondToInvitation_update(r)
    \/ \E c \in Users, n \in NetworkIds : Apply_existing(c, n)
    \/ \E r \in inflight : Apply_create(r) /\ nextId' <= MaxIdWithUpdate + 1
    \/ \E c \in Users, n \in NetworkIds, id \in ApplicationIds :
          \E a \in ActionsFor(id, {"approve", "reject"}) :
             RespondToApplication_find(c, n, id, a)
    \/ \E r \in inflight : RespondToApplication_membership(r)
    \/ \E r \in inflight : RespondToApplication_update(r)
    \/ \E c \in Users, n \in NetworkIds, u \in Users : RemoveMember_find(c, n, u)
    \/ \E r \in inflight : RemoveMember_delete(r)
    \/ \E c \in Users : CreateNetwork_network(c) /\ nextId' <= MaxIdWithUpdate + 1
    \/ \E r \in inflight : CreateNetwork_membership(r)
    \/ UpdateNetwork

SpecWithUpdate == Init /\ [][NextWithUpdate]_vars

\* ---- GET /api/networks/:id/applications --------------------------------
\* orderBy: { createdAt: 'desc' }: uuids are handed out in creation order
RECURSIVE OrderByCreatedAtDesc(_)
OrderByCreatedAtDesc(rows) ==
    IF rows = {} THEN <<>>
    ELSE LET last == CHOOSE a \in rows : \A b \in rows : b.id <= a.id IN
         <<last>> \o OrderByCreatedAtDesc(rows \ {last})

\* prisma.network.findUnique, then the 404 and 403 checks
ListApplications_find(caller, n) ==
    /\ CanStart
    /\ LET r == Request("listPendingApplications", caller, "findMany", n, "", 0, "") IN
       IF ~NetworkExists(n) THEN Finish(r, {}, "404", "Network not found")
       ELSE IF OwnerId(n) # caller
            THEN Finish(r, {}, "403", "Not authorized")
       ELSE Suspend(r, {})
    /\ UNCHANGED <<db, nextId>>

\* mutant: findMany without the status filter
ListApplications_findMany_anyStatus(r) ==
    /\ Idle
    /\ r.op = "listPendingApplications" /\ r.pc = "findMany"
    /\ inflight' = inflight \ {r}
    /\ response' = [Response(r, "200", "") EXCEPT !.body =
          OrderByCreatedAtDesc({a \in applications : a.networkId = r.networkId})]
    /\ UNCHANGED <<db, nextId, profile>>

\* prisma.networkApplication.findMany({ where: { networkId, status:
\* 'pending' }, orderBy: { createdAt: 'desc' } }), then res.json(applications)
ListApplications_findMany(r) ==
    /\ Idle
    /\ r.op = "listPendingApplications" /\ r.pc = "findMany"
    /\ inflight' = inflight \ {r}
    /\ response' = [Response(r, "200", "") EXCEPT !.body =
          OrderByCreatedAtDesc({a \in applications :
              a.networkId = r.networkId /\ a.status = "pending"})]
    /\ UNCHANGED <<db, nextId, profile>>

ListApplications ==
    \/ \E c \in Users, n \in NetworkIds : ListApplications_find(c, n)
    \/ \E r \in inflight : ListApplications_findMany(r)

NextWithList == Next \/ ListApplications

SpecWithList == Init /\ [][NextWithList]_vars

\* ---- POST /api/networks with every request body -----------------------
NextCreate ==
    \/ ResponseSent
    \/ \E c \in Users, body \in CreateBodies : CreateNetwork_body(c, body)
    \/ \E r \in inflight : CreateNetwork_membership(r)
    \/ \E c \in Users, n \in NetworkIds : DeleteNetwork_find(c, n)
    \/ \E r \in inflight : DeleteNetwork_delete(r)

SpecCreate == Init /\ [][NextCreate]_vars

\* ---- PATCH /api/users/profile ------------------------------------------
\* profileSchema.parse(req.body), then prisma.user.update({ where: { id:
\* req.user.id }, data }); a ZodError is caught as a 400
UpdateProfile(caller, body) ==
    /\ IF ~profileSchema_valid(body)
       THEN /\ profileResponse' = ProfileResponse("updateProfile", caller, caller, "400", {})
            /\ UNCHANGED users
       ELSE LET data == profileSchema_parse(body)
                old == users[caller]
                user == [phone |-> Field(data, "phone", old.phone),
                         contactEmail |-> Field(data, "contactEmail", old.contactEmail),
                         isPublicProfile |->
                             Field(data, "isPublicProfile", old.isPublicProfile)]
            IN /\ users' = [users EXCEPT ![caller] = user]
               /\ profileResponse' =
                     ProfileResponse("updateProfile", caller, caller, "200", UserJson(caller, user))
    /\ UNCHANGED <<db, nextId, inflight, response>>

\* ---- GET /api/users/:id/profile ----------------------------------------
\* mutant: nothing is deleted from the result
ViewProfile_noHide(viewer, target) ==
    /\ IF target \notin Users
       THEN profileResponse' = ProfileResponse("viewProfile", viewer, target, "404", {})
       ELSE profileResponse' =
               ProfileResponse("viewProfile", viewer, target, "200",
                               UserJson(target, users[target]))
    /\ UNCHANGED <<db, nextId, inflight, response, users>>

\* prisma.user.findUnique with the select, the 404, then
\* if (!user.isPublicProfile) { delete user.phone; delete user.contactEmail; }
ViewProfile(viewer, target) ==
    /\ IF target \notin Users
       THEN profileResponse' = ProfileResponse("viewProfile", viewer, target, "404", {})
       ELSE LET user == UserJson(target, users[target]) IN
            profileResponse' =
               ProfileResponse("viewProfile", viewer, target, "200",
                               IF ~users[target].isPublicProfile
                               THEN {p \in user : p[1] \notin {"phone", "contactEmail"}}
                               ELSE user)
    /\ UNCHANGED <<db, nextId, inflight, response, users>>

NextProfile ==
    \/ \E c \in Users, body \in ProfileBodies : UpdateProfile(c, body)
    \/ \E v \in Viewers, t \in Targets : ViewProfile(v, t)

SpecProfile == Init /\ [][NextProfile]_vars

\* ---- helpers of the properties ------------------------------------------
\* the handler r took the step: its element of inflight is replaced or removed
Stepped(r) == r \in inflight /\ r \notin inflight'

MembershipsOf(n) == {m \in memberships : m.networkId = n}

\* the spec's error kind Conflict: a unique index refused the insert, or the
\* handler found the membership itself
Conflict == {"P2002", "User already member", "Already member"}

\* ---- C1 -----------------------------------------------------------------
\* C1: in every reachable state, under any interleaving of createNetwork,
\* respondToInvitation(accept) and respondToApplication(approve), there is at
\* most one NetworkMembership row per (networkId, userId).
C1_MembershipUnique ==
    \A m1, m2 \in memberships :
        (m1.networkId = m2.networkId /\ m1.userId = m2.userId) => m1 = m2

\* an approve lost the race against an accept that is still in flight: the
\* store refused its insert
C1_Witness ==
    /\ response.op = "respondToApplication"
    /\ response.error = "P2002"
    /\ \E r \in inflight :
          /\ r.op = "respondToInvitation" /\ r.pc = "update"
          /\ r.networkId = response.networkId /\ r.caller = response.userId
    /\ \E m \in memberships :
          m.networkId = response.networkId /\ m.userId = response.userId

\* ---- C2 -----------------------------------------------------------------
\* C2: in every reachable state, also between the store writes of a request,
\* every existing Network has at least one active Membership.
C2_NetworkHasActiveMember ==
    \A w \in networks :
        \E m \in memberships : m.networkId = w.id /\ m.status = "active"

\* ---- C3 -----------------------------------------------------------------
\* C3: when createNetwork by caller A answers 200 with network N, exactly one
\* Membership row exists for N, with userId = N.ownerId = A, role owner and
\* status active.
C3_CreatedWithOneOwnerMembership ==
    (response.op = "createNetwork" /\ response.status = "200") =>
        /\ NetworkExists(response.networkId)
        /\ OwnerId(response.networkId) = response.caller
        /\ Cardinality(MembershipsOf(response.networkId)) = 1
        /\ \A m \in MembershipsOf(response.networkId) :
              /\ m.userId = response.caller
              /\ m.role = "owner"
              /\ m.status = "active"

\* ---- C4 -----------------------------------------------------------------
\* C4: in every reachable state there is at most one Invitation row and at
\* most one Application row per (networkId, userId), whatever their status.
C4_InvitationApplicationUnique ==
    /\ \A i1, i2 \in invitations :
          (i1.networkId = i2.networkId /\ i1.invitedUserId = i2.invitedUserId)
              => i1 = i2
    /\ \A a1, a2 \in applications :
          (a1.networkId = a2.networkId /\ a1.applicantId = a2.applicantId)
              => a1 = a2

\* a second invite of the pair was refused by the unique index while the
\* first row and an Application row exist
C4_Witness ==
    /\ response.op = "inviteUser"
    /\ response.error = "P2002"
    /\ NetworkInvitation_networkId_invitedUserId_key(response.networkId, response.userId)
    /\ applications # {}

C6_TerminalInvitationFinal ==
    [][\A i \in invitations :
          i.status \in {"accepted", "rejected"} =>
              \A j \in invitations' : j.id = i.id => j.status = i.status]_vars

\* ---- C7 -----------------------------------------------------------------
\* C7: a respondToApplication call on an Application whose caller is not the
\* owner of application.networkId changes nothing in the store at any of its
\* steps and is answered 403; hence every change of an Application's status
\* is made by a call of the owner of the Application's network.
C7_OnlyOwnerDecidesApplication ==
    [][\A a \in applications :
          /\ \A r \in inflight :
                ( /\ r.op = "respondToApplication" /\ r.rowId = a.id
                  /\ Stepped(r)
                  /\ r.caller # OwnerId(a.networkId) )
                => ( /\ db' = db
                     /\ response' # NoResponse => response'.status = "403" )
          /\ ( /\ response'.op = "respondToApplication"
               /\ response'.rowId = a.id
               /\ NetworkExists(response'.networkId)
               /\ response'.caller # OwnerId(a.networkId) )
             => (response'.status = "403" /\ db' = db)
          /\ (\E b \in applications' : b.id = a.id /\ b.status # a.status)
             => \E r \in inflight :
                   /\ r.op = "respondToApplication" /\ r.rowId = a.id
                   /\ Stepped(r)
                   /\ r.caller = OwnerId(a.networkId)]_vars

\* ---- C8 -----------------------------------------------------------------
\* C8: no Membership, Invitation or Application row ever references a missing
\* Network, and an id that names no Network (a deleted one in particular)
\* never names a Network again: after deleteNetwork(X) no row with
\* networkId = X exists in any later state, whatever the handlers in flight do.
NoOrphanRows ==
    /\ \A m \in memberships : NetworkExists(m.networkId)
    /\ \A i \in invitations : NetworkExists(i.networkId)
    /\ \A a \in applications : NetworkExists(a.networkId)

C8_CascadeComplete ==
    [][ /\ NoOrphanRows'
        /\ \A n \in 1..(nextId - 1) : ~NetworkExists(n) => ~NetworkExists(n)' ]_vars

\* the insert of an invite that read the Network before its deletion has just
\* been refused by the foreign key
C8_Witness ==
    /\ response.op = "inviteUser"
    /\ response.error = "P2003"
    /\ response.networkId # 0
    /\ ~NetworkExists(response.networkId)

\* ---- C9 -----------------------------------------------------------------
\* C9: removeMember(caller, N, target) with caller = N.ownerId and
\* target = caller is answered 400 'Cannot remove yourself' at once; no row is
\* deleted and no handler is left in flight for it.
C9_OwnerCannotRemoveSelf ==
    [][\A w \in networks :
          RemoveMember_find(w.ownerId, w.id, w.ownerId)
          => ( /\ response'.op = "removeMember"
               /\ response'.status = "400"
               /\ response'.error = "Cannot remove yourself"
               /\ UNCHANGED <<db, inflight>> )]_vars

C9_Witness ==
    /\ response.op = "removeMember"
    /\ response.error = "Cannot remove yourself"
    /\ NetworkExists(response.networkId)
    /\ response.caller = OwnerId(response.networkId)
    /\ response.userId = response.caller
    /\ \E m \in memberships :
          m.networkId = response.networkId /\ m.userId = response.caller

\* ---- C10 ----------------------------------------------------------------
\* C10: while an Invitation row exists for (N, U), in any status, the row stays
\* as long as N exists, every inviteUser(owner, N, U) that completes is
\* answered 400 with a Conflict error, and no step of an inviteUser changes an
\* Invitation row.
C10_ReinviteConflicts ==
    [][\A i \in invitations :
          /\ NetworkExists(i.networkId)' =>
                \E j \in invitations' :
                    /\ j.id = i.id /\ j.networkId = i.networkId
                    /\ j.invitedUserId = i.invitedUserId
          /\ \A r \in inflight :
                ( /\ r.op = "inviteUser" /\ Stepped(r)
                  /\ r.networkId = i.networkId /\ r.userId = i.invitedUserId )
                => ( /\ response'.status = "400"
                     /\ response'.error \in Conflict
                     /\ invitations' = invitations )
          /\ ( /\ response'.op = "inviteUser"
               /\ response'.networkId = i.networkId
               /\ response'.userId = i.invitedUserId
               /\ response'.caller = OwnerId(i.networkId) )
             => ( /\ response'.status = "400"
                  /\ response'.error \in Conflict
                  /\ invitations' = invitations )]_vars

\* invite, reject, invite again: the second invite has just been refused
C10_Witness ==
    /\ response.op = "inviteUser"
    /\ response.error = "P2002"
    /\ \E i \in invitations :
          /\ i.networkId = response.networkId
          /\ i.invitedUserId = response.userId
          /\ i.status = "rejected"

\* ---- C11 ----------------------------------------------------------------
\* C11: at the step that inserts an Invitation row for (N, U), U holds no
\* Membership in N.
NewInvitations == {j \in invitations' : ~\E i \in invitations : i.id = j.id}

C11_InvitedAreNotMembers ==
    [][\A j \in NewInvitations :
          ~NetworkMembership_networkId_userId_key(j.networkId, j.invitedUserId)]_vars

\* ---- C12 ----------------------------------------------------------------
\* C12: updateNetwork and deleteNetwork by a caller who is not the owner of an
\* existing network are answered 403 at once and change no row; a Network row
\* is modified or removed only at a step of an updateNetwork or deleteNetwork
\* call of its owner.
C12_OnlyOwnerChangesNetwork ==
    [][ /\ \A c \in Users, w \in networks, body \in Bodies :
              ( /\ c # w.ownerId
                /\ UpdateNetwork_find(c, w.id, body) \/ DeleteNetwork_find(c, w.id) )
              => ( /\ response'.status = "403"
                   /\ UNCHANGED <<db, inflight>> )
        /\ \A w \in networks :
              w \notin networks' =>
                 \E r \in inflight :
                    /\ Stepped(r)
                    /\ r.op \in {"updateNetwork", "deleteNetwork"}
                    /\ r.networkId = w.id
                    /\ r.caller = w.ownerId ]_vars

\* a user who does not own the network has just been refused an update, and
\* the network has a row of that user
C12_Witness ==
    /\ response.op = "updateNetwork"
    /\ response.status = "403"
    /\ \E w \in networks : w.id = response.networkId /\ w.name = NewNetworkName
    /\ \E x \in invitations \cup applications : x.networkId = response.networkId

\* ---- C13 ----------------------------------------------------------------
\* C13: an Invitation row is inserted only by a step of an inviteUser call of
\* the network's owner, with status pending; inviteUser by anyone else is
\* answered 403 (404 when the network is absent) at once and changes nothing;
\* every Invitation's inviterId is its network's ownerId.
C13_InvitationsByOwner ==
    [][ /\ \A j \in NewInvitations :
              /\ j.status = "pending"
              /\ \E r \in inflight :
                    /\ r.op = "inviteUser" /\ Stepped(r)
                    /\ r.networkId = j.networkId
                    /\ r.caller = OwnerId(j.networkId)
        /\ \A j \in invitations' : j.inviterId = OwnerId(j.networkId)'
        /\ \A c \in Users, n \in NetworkIds, u \in Users :
              ( /\ Invite_find(c, n, u)
                /\ IF NetworkExists(n) THEN OwnerId(n) # c ELSE TRUE )
              => ( /\ response'.status = IF NetworkExists(n) THEN "403" ELSE "404"
                   /\ UNCHANGED <<db, inflight>> ) ]_vars

\* an invite by a user who does not own the network has just been refused,
\* and the network has an Invitation of its owner
C13_Witness ==
    /\ response.op = "inviteUser"
    /\ response.status = "403"
    /\ \E i \in invitations :
          i.networkId = response.networkId /\ i.inviterId # response.caller

\* ---- C14 ----------------------------------------------------------------
\* C14: an Invitation's status changes, and a Membership is inserted by a
\* respondToInvitation call, only at a step of a call whose caller is
\* invitation.invitedUserId; a call by anyone else is answered 403 at once
\* and changes nothing.
C14_OnlyInviteeResponds ==
    [][ /\ \A i \in invitations :
              (\E j \in invitations' : j.id = i.id /\ j.status # i.status)
              => \E r \in inflight :
                    /\ r.op = "respondToInvitation" /\ Stepped(r)
                    /\ r.rowId = i.id
                    /\ r.caller = i.invitedUserId
        /\ \A r \in inflight :
              ( /\ r.op = "respondToInvitation" /\ Stepped(r)
                /\ memberships' # memberships )
              => \E i \in invitations :
                    /\ i.id = r.rowId
                    /\ r.caller = i.invitedUserId
                    /\ memberships' = memberships \cup
                         {[id |-> 0, networkId |-> i.networkId, userId |-> r.caller,
                           role |-> "member", status |-> "active"]}
        /\ \A c \in Users, i \in invitations, a \in {"accept", "reject"} :
              (RespondToInvitation_find(c, i.id, a) /\ c # i.invitedUserId)
              => ( /\ response'.status = "403"
                   /\ UNCHANGED <<db, inflight>> ) ]_vars

\* the owner of the network has just been refused on an invitation of
\* another user
C14_Witness ==
    /\ response.op = "respondToInvitation"
    /\ response.status = "403"
    /\ NetworkExists(response.networkId)
    /\ response.caller = OwnerId(response.networkId)
    /\ \E i \in invitations :
          i.id = response.rowId /\ i.invitedUserId # response.caller

\* ---- C15 ----------------------------------------------------------------
\* C15: in a respondToApplication call of the owner, the approve insert for an
\* applicant U who is no member of N adds exactly the row (N, U, member,
\* active) and the status update that follows sets the Application to
\* approved; the update of a reject sets it to rejected; the update steps
\* insert no Membership.
C15_ApproveRejectEffect ==
    [][\A r \in inflight :
          (r.op = "respondToApplication" /\ Stepped(r)) =>
             /\ ( /\ r.pc = "membership"
                  /\ NetworkExists(r.networkId)
                  /\ ~NetworkMembership_networkId_userId_key(r.networkId, r.userId) )
                => ( /\ memberships' = memberships \cup
                          {[id |-> 0, networkId |-> r.networkId, userId |-> r.userId,
                            role |-> "member", status |-> "active"]}
                     /\ applications' = applications
                     /\ [r EXCEPT !.pc = "update"] \in inflight' )
             /\ ( /\ r.pc = "update"
                  /\ \E a \in applications : a.id = r.rowId )
                => ( /\ applications' =
                          {IF a.id = r.rowId
                           THEN [a EXCEPT !.status = IF r.action = "approve"
                                                     THEN "approved" ELSE "rejected"]
                           ELSE a : a \in applications}
                     /\ memberships' = memberships
                     /\ response'.status = "200" )]_vars

\* an approve of the network's own pending application has just completed
C15_Witness ==
    /\ response.op = "respondToApplication"
    /\ response.action = "approve"
    /\ response.status = "200"
    /\ \E a \in applications :
          /\ a.id = response.rowId /\ a.networkId = response.networkId
          /\ a.status = "approved"
          /\ \E m \in memberships :
                /\ m.networkId = a.networkId /\ m.userId = a.applicantId
                /\ m.role = "member"

\* ---- C16 ----------------------------------------------------------------
\* C16: applyToNetwork(U, N) by a member of N is answered 400 'Already member'
\* at once; its insert is refused with the unique-constraint error when an
\* Application of (N, U) exists; in both cases no row changes.  Otherwise the
\* insert into an existing network adds one Application (N, U, pending).
C16_ApplyConflicts ==
    [][ /\ \A c \in Users, n \in NetworkIds :
              (Apply_existing(c, n) /\ NetworkMembership_networkId_userId_key(n, c))
              => ( /\ response'.status = "400"
                   /\ response'.error \in Conflict
                   /\ UNCHANGED <<db, inflight>> )
        /\ \A r \in inflight :
              (r.op = "applyToNetwork" /\ Stepped(r)) =>
                 IF NetworkApplication_networkId_applicantId_key(r.networkId, r.caller)
                 THEN /\ response'.status = "400"
                      /\ response'.error \in Conflict
                      /\ db' = db
                 ELSE NetworkExists(r.networkId) =>
                      /\ applications' = applications \cup
                            {[id |-> nextId, networkId |-> r.networkId,
                              applicantId |-> r.caller, status |-> "pending"]}
                      /\ response'.status = "200"
                      /\ UNCHANGED <<networks, memberships, invitations>> ]_vars

\* an approved applicant has just been refused a second application
C16_Witness ==
    /\ response.op = "applyToNetwork"
    /\ response.error = "Already member"
    /\ \E a \in applications :
          /\ a.networkId = response.networkId
          /\ a.applicantId = response.caller
          /\ a.status = "approved"

\* ---- C17 ----------------------------------------------------------------
\* C17: viewProfile of a user whose isPublicProfile is false, by any viewer
\* other than that user, returns neither phone nor contactEmail: the result
\* is the user's id and isPublicProfile only, whatever the two fields hold.
C17_PrivateContactHidden ==
    [][\A v \in Viewers, t \in Users :
          (ViewProfile(v, t) /\ v # t /\ ~users[t].isPublicProfile)
          => /\ ~HasField(profileResponse'.body, "phone")
             /\ ~HasField(profileResponse'.body, "contactEmail")
             /\ profileResponse'.body = {<<"id", t>>, <<"isPublicProfile", FALSE>>}]_vars

\* another user has just viewed a private profile whose phone and
\* contactEmail are both set
C17_Witness ==
    /\ profileResponse.op = "viewProfile"
    /\ profileResponse.status = "200"
    /\ profileResponse.caller # profileResponse.target
    /\ LET row == users[profileResponse.target] IN
          /\ ~row.isPublicProfile
          /\ row.phone \in Phones
          /\ row.contactEmail \in Emails
    /\ ~HasField(profileResponse.body, "phone")

\* ---- C18 ----------------------------------------------------------------
\* C18: the result of viewProfile of a user whose isPublicProfile is false,
\* called by that same user, contains the phone and contactEmail fields.
C18_OwnerSeesOwnContact ==
    ( /\ profileResponse.op = "viewProfile"
      /\ profileResponse.status = "200"
      /\ profileResponse.caller = profileResponse.target
      /\ Field(profileResponse.body, "isPublicProfile", TRUE) = FALSE )
    => ( /\ HasField(profileResponse.body, "phone")
         /\ HasField(profileResponse.body, "contactEmail") )

\* ---- C19 ----------------------------------------------------------------
\* C19: in no reachable state does the Membership inserted by an accept (or
\* approve) exist while its Invitation (or Application) is still pending.
C19_AcceptApproveAtomic ==
    \A r \in inflight :
        (r.pc = "update" /\ r.action \in {"accept", "approve"}) =>
            ~ ( /\ NetworkMembership_networkId_userId_key(r.networkId, r.userId)
                /\ \E i \in invitations \cup applications :
                      i.id = r.rowId /\ i.status = "pending" )

\* ---- C20 ----------------------------------------------------------------
\* C20: once an Application's status is approved or rejected, no step changes
\* its status again.
C20_TerminalApplicationFinal ==
    [][\A a \in applications :
          a.status \in {"approved", "rejected"} =>
              \A b \in applications' : b.id = a.id => b.status = a.status]_vars

\* ---- C21 ----------------------------------------------------------------
\* C21: the approve insert of respondToApplication for an applicant who holds
\* a Membership in the network is refused by the store: the call ends without
\* a success response, no row changes, and the status update is never run.
C21_ApproveOfMemberFails ==
    [][\A r \in inflight :
          ( /\ r.op = "respondToApplication" /\ r.action = "approve" /\ Stepped(r)
            /\ r.pc = "membership"
            /\ NetworkMembership_networkId_userId_key(r.networkId, r.userId) )
          => ( /\ response'.status # "200"
               /\ response'.error \in Conflict
               /\ db' = db
               /\ \A q \in inflight' : q.op = r.op /\ q.rowId = r.rowId
                                        /\ q.pc = "update" => q \in inflight )]_vars

\* the owner's approve has just failed for a user who joined by accepting an
\* invitation while the application was pending
C21_Witness ==
    /\ response.op = "respondToApplication"
    /\ response.action = "approve"
    /\ response.error = "P2002"
    /\ \E a \in applications :
          /\ a.id = response.rowId /\ a.networkId = response.networkId
          /\ a.status = "pending"
          /\ \E i \in invitations :
                /\ i.networkId = a.networkId /\ i.invitedUserId = a.applicantId
                /\ i.status = "accepted"

\* ---- C22 ----------------------------------------------------------------
\* C22: the delete of removeMember(owner, N, U), U not the caller, removes
\* exactly the Membership (N, U) when it exists and changes no other row; when
\* no Membership (N, U) exists the store refuses it (record not found) and no
\* row changes; removeMember by a caller who is not the owner is answered 403
\* at once and changes nothing.
NotFound == {"P2025", "Network not found"}

Range(seq) == {seq[k] : k \in 1..Len(seq)}

C23_ListsExactlyPending ==
    [][ /\ \A r \in inflight :
              (r.op = "listPendingApplications" /\ Stepped(r)) =>
                 /\ response'.status = "200"
                 /\ Range(response'.body) =
                       {a \in applications :
                           a.networkId = r.networkId /\ a.status = "pending"}
                 /\ Len(response'.body) = Cardinality(Range(response'.body))
                 /\ db' = db
        /\ \A a \in applications :
              a.status # "pending" =>
                 \A b \in applications' : b.id = a.id => b.status # "pending"
        /\ \A c \in Users, w \in networks :
              (ListApplications_find(c, w.id) /\ c # w.ownerId)
              => ( /\ response'.status = "403"
                   /\ response'.body = <<>>
                   /\ UNCHANGED <<db, inflight>> ) ]_vars

\* the owner has just listed a network that has a pending Application, which
\* is returned, and a decided one, which is not
C23_Witness ==
    /\ response.op = "listPendingApplications"
    /\ response.status = "200"
    /\ Len(response.body) >= 1
    /\ \E a \in applications :
          a.networkId = response.networkId /\ a.status # "pending"

\* ---- C24 ----------------------------------------------------------------
\* C24: createNetwork with a name whose length is outside 1..100, with no
\* theme, with more than 10 themes, or with a theme that is the empty string
\* is answered 400 at once and persists no row.
NameOutOfRange(body) ==
    Len(Field(body, "name", "")) < 1 \/ Len(Field(body, "name", "")) > 100

ThemesOutOfRange(body) ==
    Len(Field(body, "themes", <<>>)) < 1 \/ Len(Field(body, "themes", <<>>)) > 10

EmptyTheme(body) ==
    \E k \in 1..Len(Field(body, "themes", <<>>)) : Field(body, "themes", <<>>)[k] = ""

C24_InvalidBodyRefused ==
    [][\A c \in Users, body \in CreateBodies :
          ( /\ CreateNetwork_body(c, body)
            /\ NameOutOfRange(body) \/ ThemesOutOfRange(body) \/ EmptyTheme(body) )
          => ( /\ response'.status = "400"
               /\ UNCHANGED <<db, inflight>> )]_vars

\* ---- C25 ----------------------------------------------------------------
\* C25: every Network whose createNetwork request has completed has exactly
\* one Membership with role owner, and its userId is the Network's ownerId.
OwnerMemberships(n) == {m \in MembershipsOf(n) : m.role = "owner"}

C25_OneOwnerMembership ==
    \A w \in networks :
        (~\E r \in inflight : r.op = "createNetwork" /\ r.networkId = w.id)
        => /\ Cardinality(OwnerMemberships(w.id)) = 1
           /\ \A m \in OwnerMemberships(w.id) : m.userId = w.ownerId

\* ---- C26 ----------------------------------------------------------------
\* C26: in every state with no request in progress, each Membership with role
\* member for (N, U) has an accepted Invitation or an approved Application
\* for (N, U).
C26_MemberIsBacked ==
    inflight = {} =>
        \A m \in memberships :
            m.role = "member" =>
                \/ \E i \in invitations :
                      /\ i.networkId = m.networkId /\ i.invitedUserId = m.userId
                      /\ i.status = "accepted"
                \/ \E a \in applications :
                      /\ a.networkId = m.networkId /\ a.applicantId = m.userId
                      /\ a.status = "approved"

\* ---- C27 ----------------------------------------------------------------
\* C27: a user who accepted an Invitation to N and holds no Membership in N
\* (the owner removed it) gets a Membership in N again only at a step of a
\* respondToApplication call of the owner of N.
C27_RemovedStaysRemoved ==
    [][\A i \in invitations :
          ( /\ i.status = "accepted"
            /\ ~NetworkMembership_networkId_userId_key(i.networkId, i.invitedUserId)
            /\ NetworkMembership_networkId_userId_key(i.networkId, i.invitedUserId)' )
          => \E r \in inflight :
                /\ Stepped(r)
                /\ r.op = "respondToApplication"
                /\ r.caller = OwnerId(i.networkId)]_vars
====
